---- MODULE Spec2Model ----
(***************************************************************************)
(* Resolution of the access control list of core/tauri-utils:              *)
(* Resolved::resolve of src/core/tauri-utils/src/acl/resolved.rs as a      *)
(* state machine.  One behaviour is one call of resolve (and, for the      *)
(* determinism claim, a second call on the same inputs).  The lists         *)
(* referenced_by, kept under cfg(debug_assertions) only, are left out: no   *)
(* branch reads them.                                                       *)
(***************************************************************************)
EXTENDS Integers, Sequences, FiniteSets, TLC

VARIABLES
  acl,               \* BTreeMap<String, Manifest>             (input)
  capabilities,      \* BTreeMap<String, Capability>.values()  (input, in key order)
  target,            \* Target                                 (input)
  pc,                \* where resolve is
  ci, ei, pi,        \* the capability, permission entry and permission being looked at
  permissions,       \* what get_permissions returned for the current entry
  allowed_commands,  \* BTreeMap<CommandKey, ResolvedCommandTemp>
  denied_commands,   \* BTreeMap<CommandKey, ResolvedCommandTemp>
  current_scope_id,  \* usize
  command_scopes,    \* BTreeMap<usize, Scopes>
  global_scope,      \* BTreeMap<String, Vec<Scopes>>
  resolved_scopes,   \* BTreeMap<ScopeKey, ResolvedScope>
  result,            \* what resolve returned, Pending while it has not
  first              \* what the first of two calls on these inputs returned

vars == <<acl, capabilities, target, pc, ci, ei, pi, permissions,
          allowed_commands, denied_commands, current_scope_id, command_scopes,
          global_scope, resolved_scopes, result, first>>

-----------------------------------------------------------------------------
(* Option<T>: None is the empty sequence, Some(x) the one-element sequence. *)

None == <<>>

Some(x) == <<x>>

IsSome(o) == o # <<>>

\* Option<Vec<T>> iterated and flattened: the values of a present list, else nothing.
Flat(o) == IF IsSome(o) THEN o[1] ELSE <<>>

Range(s) == {s[i] : i \in DOMAIN s}

\* BTreeMap: a function; BTreeMap::new() is the function of empty domain.
EmptyMap == [k \in {} |-> k]

MapPut(m, k, v) == [x \in (DOMAIN m) \cup {k} |-> IF x = k THEN v ELSE m[x]]

-----------------------------------------------------------------------------
(* glob::Pattern::new: a pattern keeps its source string; some strings do   *)
(* not compile.                                                             *)

InvalidGlobs == {"[", "a**"}

PatternNew(s) ==
  IF s \in InvalidGlobs
    THEN [kind |-> "err", error |-> [type |-> "PatternError", pattern |-> s]]
    ELSE [kind |-> "ok", pattern |-> [original |-> s]]

-----------------------------------------------------------------------------
(* Permission expansion.                                                    *)

\* The deepest chain of nested set expansions an acyclic manifest allows: the
\* set the expansion starts from (the default set is not in the map) and then
\* every set of the map once.  A deeper chain holds one set twice, and that
\* set's expansion then contains itself: the recursion never returns and the
\* thread's stack is exhausted.
StackLimit(manifest) == Cardinality(DOMAIN manifest.permission_sets) + 1

RECURSIVE get_permission_set_permissions(_, _, _)
RECURSIVE SetMembers(_, _, _, _, _)

\* The loop `for p in &set.permissions` from member i on, with the
\* permissions pushed so far.
SetMembers(manifest, set, i, pushed, depth) ==
  IF i > Len(set.permissions)
    THEN [kind |-> "ok", permissions |-> pushed]
    ELSE LET p == set.permissions[i] IN
      IF p \in DOMAIN manifest.permissions
        THEN SetMembers(manifest, set, i + 1, Append(pushed, p), depth)
      ELSE IF p \in DOMAIN manifest.permission_sets
        THEN LET r == get_permission_set_permissions(
                        manifest, manifest.permission_sets[p], depth + 1)
             IN IF r.kind = "ok"
                  THEN SetMembers(manifest, set, i + 1, pushed \o r.permissions, depth)
                  ELSE r
      ELSE [kind |-> "err",
            error |-> [type |-> "SetPermissionNotFound",
                       permission |-> p, set |-> set.identifier]]

\* depth is the number of frames of this function on the stack.
get_permission_set_permissions(manifest, set, depth) ==
  IF depth > StackLimit(manifest)
    THEN [kind |-> "overflow"]
    ELSE SetMembers(manifest, set, 1, <<>>, depth)

UnknownPermission(plugin_name, permission_name) ==
  [kind |-> "err",
   error |-> [type |-> "UnknownPermission",
              plugin |-> plugin_name, permission |-> permission_name]]

\* get_permissions looking for a permission of the name before a set of it.
get_permissions_PermissionFirst(plugin_name, permission_name, manifests) ==
  IF plugin_name \notin DOMAIN manifests
    THEN [kind |-> "err",
          error |-> [type |-> "UnknownPlugin", plugin |-> plugin_name,
                     available |-> DOMAIN manifests]]
    ELSE LET manifest == manifests[plugin_name] IN
      IF permission_name = "default"
        THEN IF IsSome(manifest.default_permission)
               THEN get_permission_set_permissions(
                      manifest, manifest.default_permission[1], 1)
               ELSE UnknownPermission(plugin_name, permission_name)
      ELSE IF permission_name \in DOMAIN manifest.permissions
        THEN [kind |-> "ok", permissions |-> <<permission_name>>]
      ELSE IF permission_name \in DOMAIN manifest.permission_sets
        THEN get_permission_set_permissions(
               manifest, manifest.permission_sets[permission_name], 1)
      ELSE UnknownPermission(plugin_name, permission_name)

get_permissions(plugin_name, permission_name, manifests) ==
  IF plugin_name \notin DOMAIN manifests
    THEN [kind |-> "err",
          error |-> [type |-> "UnknownPlugin", plugin |-> plugin_name,
                     available |-> DOMAIN manifests]]
    ELSE LET manifest == manifests[plugin_name] IN
      IF permission_name = "default"
        THEN IF IsSome(manifest.default_permission)
               THEN get_permission_set_permissions(
                      manifest, manifest.default_permission[1], 1)
               ELSE UnknownPermission(plugin_name, permission_name)
      ELSE IF permission_name \in DOMAIN manifest.permission_sets
        THEN get_permission_set_permissions(
               manifest, manifest.permission_sets[permission_name], 1)
      ELSE IF permission_name \in DOMAIN manifest.permissions
        THEN [kind |-> "ok", permissions |-> <<permission_name>>]
      ELSE UnknownPermission(plugin_name, permission_name)

-----------------------------------------------------------------------------
(* The scope of one permission usage.                                       *)

\* The extension's list taking the place of the declared one.
ExtendWith_Replacing(declared, extension) ==
  IF IsSome(extension) THEN extension ELSE declared

\* merged.allow.get_or_insert_with(Default::default).extend(allow), when the
\* extension has a list.
ExtendWith(declared, extension) ==
  IF IsSome(extension) THEN Some(Flat(declared) \o extension[1]) ELSE declared

EffectiveScope(permission_entry, permission) ==
  IF permission_entry.kind = "PermissionRef"
    THEN permission.scope
    ELSE [allow |-> ExtendWith(permission.scope.allow, permission_entry.scope.allow),
          deny  |-> ExtendWith(permission.scope.deny, permission_entry.scope.deny)]

\* A permission that names no command is a grant on the whole plugin.
IsGlobal(permission) ==
  permission.commands.allow = <<>> /\ permission.commands.deny = <<>>

HasScope(scope) == IsSome(scope.allow) \/ IsSome(scope.deny)

-----------------------------------------------------------------------------
(* resolve_command.                                                         *)

Local == [kind |-> "Local", domain |-> None]

Remote(pattern) == [kind |-> "Remote", domain |-> Some(pattern)]

\* ResolvedCommandTemp::default()
DefaultTemp == [windows |-> {}, scope |-> <<>>, resolved_scope_key |-> None]

\* A Remote capability resolved for its first domain only.
Contexts_FirstDomainOnly(capability) ==
  IF capability.context.kind = "Local"
    THEN [kind |-> "ok", contexts |-> <<Local>>]
  ELSE IF \E i \in DOMAIN capability.context.domains :
            PatternNew(capability.context.domains[i]).kind = "err"
    THEN [kind |-> "panic"]
  ELSE [kind |-> "ok",
        contexts |-> <<Remote(PatternNew(capability.context.domains[1]).pattern)>>]

\* The execution contexts of a capability; a remote domain that does not
\* compile panics.
Contexts(capability) ==
  IF capability.context.kind = "Local"
    THEN [kind |-> "ok", contexts |-> <<Local>>]
  ELSE IF \E i \in DOMAIN capability.context.domains :
            PatternNew(capability.context.domains[i]).kind = "err"
    THEN [kind |-> "panic"]
  ELSE [kind |-> "ok",
        contexts |-> [i \in DOMAIN capability.context.domains |->
                        Remote(PatternNew(capability.context.domains[i]).pattern)]]

\* One pass of `for context in contexts`.
ResolveContext(commands, command, context, capability, scope_id) ==
  LET key == [name |-> command, context |-> context]
      resolved == IF key \in DOMAIN commands THEN commands[key] ELSE DefaultTemp
  IN MapPut(commands, key,
            [resolved EXCEPT
               !.windows = @ \cup Range(capability.windows),
               !.scope = IF IsSome(scope_id) THEN Append(@, scope_id[1]) ELSE @])

RECURSIVE ResolveContexts(_, _, _, _, _)
ResolveContexts(commands, command, contexts, capability, scope_id) ==
  IF contexts = <<>>
    THEN commands
    ELSE ResolveContexts(
           ResolveContext(commands, command, Head(contexts), capability, scope_id),
           command, Tail(contexts), capability, scope_id)

resolve_command(commands, command, capability, scope_id) ==
  LET c == Contexts(capability) IN
  IF c.kind = "panic"
    THEN [kind |-> "panic"]
    ELSE [kind |-> "ok",
          commands |-> ResolveContexts(commands, command, c.contexts,
                                       capability, scope_id)]

\* format!("plugin:{plugin_name}|{allowed_command}")
CommandName(plugin_name, command) == "plugin:" \o plugin_name \o "|" \o command

\* `for allowed_command in &permission.commands.allow { resolve_command(..) }`
\* (and the same loop over commands.deny): r is the table so far, or a panic.
RECURSIVE ResolveCommands(_, _, _, _, _)
ResolveCommands(r, plugin_name, names, capability, scope_id) ==
  IF names = <<>> \/ r.kind = "panic"
    THEN r
    ELSE ResolveCommands(
           resolve_command(r.commands, CommandName(plugin_name, Head(names)),
                           capability, scope_id),
           plugin_name, Tail(names), capability, scope_id)

-----------------------------------------------------------------------------
(* The scope store.                                                         *)

RECURSIVE InsertSorted(_, _)
InsertSorted(x, s) ==
  IF s = <<>> THEN <<x>>
  ELSE IF x <= Head(s) THEN <<x>> \o s
  ELSE <<Head(s)>> \o InsertSorted(x, Tail(s))

\* Vec<usize>::sort
RECURSIVE SortIds(_)
SortIds(s) == IF s = <<>> THEN <<>> ELSE InsertSorted(Head(s), SortIds(Tail(s)))

\* DefaultHasher::new() has fixed keys, so the hash is a function of the
\* hashed sequence alone: of its length, then of its ids in order.  SipHash
\* is modelled by the positional code of these numbers in base HashBase,
\* which tells apart every two id lists of a run here (lengths and ids stay
\* below HashBase): a collision of the 64-bit hash is not modelled.
HashBase == 16

RECURSIVE HashFrom(_, _)
HashFrom(h, s) == IF s = <<>> THEN h ELSE HashFrom(h * HashBase + Head(s), Tail(s))

HashIds(ids) == HashFrom(Len(ids), ids)

RECURSIVE FlatMapAllow(_, _)
FlatMapAllow(ids, scopes) ==
  IF ids = <<>> THEN <<>>
  ELSE Flat(scopes[Head(ids)].allow) \o FlatMapAllow(Tail(ids), scopes)

RECURSIVE FlatMapDeny(_, _)
FlatMapDeny(ids, scopes) ==
  IF ids = <<>> THEN <<>>
  ELSE Flat(scopes[Head(ids)].deny) \o FlatMapDeny(Tail(ids), scopes)

\* ResolvedScope { allow: .. , deny: .. } of a sorted id list
MergedScope(ids, scopes) ==
  [allow |-> FlatMapAllow(ids, scopes), deny |-> FlatMapDeny(ids, scopes)]

\* allowed.scope.sort(); allowed.resolved_scope_key.replace(hash), for an
\* entry whose id list is not empty
WithScopeKey(entry) ==
  IF entry.scope = <<>>
    THEN entry
    ELSE [entry EXCEPT !.scope = SortIds(@),
                       !.resolved_scope_key = Some(HashIds(SortIds(entry.scope)))]

\* The table after `for allowed in allowed_commands.values_mut()`.
WithScopeKeys(commands) == [k \in DOMAIN commands |-> WithScopeKey(commands[k])]

\* resolved_scopes after that loop: one ResolvedScope per hash.  Entries of
\* equal hash have equal id lists here, so which of them is inserted last
\* does not matter.
ResolvedScopesOf(commands, scopes) ==
  LET keys == {k \in DOMAIN commands : commands[k].scope # <<>>}
      hashes == {HashIds(SortIds(commands[k].scope)) : k \in keys}
  IN [h \in hashes |->
        LET k == CHOOSE k \in keys : HashIds(SortIds(commands[k].scope)) = h
        IN MergedScope(SortIds(commands[k].scope), scopes)]

-----------------------------------------------------------------------------
(* The global scope and the assembly of the result.                         *)

RECURSIVE KeepFirst(_, _)
KeepFirst(values, seen) ==
  IF values = <<>> THEN <<>>
  ELSE IF Head(values) \in seen THEN KeepFirst(Tail(values), seen)
  ELSE <<Head(values)>> \o KeepFirst(Tail(values), seen \cup {Head(values)})

RECURSIVE Concatenated(_)
Concatenated(scopes) ==
  IF scopes = <<>>
    THEN [allow |-> <<>>, deny |-> <<>>]
    ELSE LET rest == Concatenated(Tail(scopes)) IN
         [allow |-> Flat(Head(scopes).allow) \o rest.allow,
          deny  |-> Flat(Head(scopes).deny) \o rest.deny]

\* The global scope with repeated values dropped.
GlobalScopeOf_Deduplicated(scopes) ==
  [allow |-> KeepFirst(Concatenated(scopes).allow, {}),
   deny  |-> KeepFirst(Concatenated(scopes).deny, {})]

RECURSIVE GlobalScopeOf(_)
\* let mut resolved_scope = ResolvedScope::default(); for scope in scopes {..}
GlobalScopeOf(scopes) ==
  IF scopes = <<>>
    THEN [allow |-> <<>>, deny |-> <<>>]
    ELSE LET rest == GlobalScopeOf(Tail(scopes)) IN
         [allow |-> Flat(Head(scopes).allow) \o rest.allow,
          deny  |-> Flat(Head(scopes).deny) \o rest.deny]

\* The orders in which a HashSet<String> can hand out its elements: any.
IterationOrders(set) ==
  {s \in [1..Cardinality(set) -> set] : \A i, j \in DOMAIN s : s[i] = s[j] => i = j}

\* parse_window_patterns: the lists it can return, or the pattern error.
parse_window_patterns(windows) ==
  IF \E w \in windows : PatternNew(w).kind = "err"
    THEN [kind |-> "err",
          errors |-> {PatternNew(w).error : w \in {x \in windows : PatternNew(x).kind = "err"}}]
    ELSE [kind |-> "ok",
          patterns |-> {[i \in DOMAIN s |-> PatternNew(s[i]).pattern] :
                          s \in IterationOrders(windows)}]

\* The tables `commands.into_iter().map(..).collect()` can build when every
\* window label compiles.
RECURSIVE AssembledCommands(_, _)
AssembledCommands(commands, keys) ==
  IF keys = {}
    THEN {EmptyMap}
    ELSE LET k == CHOOSE k \in keys : TRUE IN
         {MapPut(m, k, [windows |-> w, scope |-> commands[k].resolved_scope_key]) :
            m \in AssembledCommands(commands, keys \ {k}),
            w \in parse_window_patterns(commands[k].windows).patterns}

WindowErrors(commands) ==
  UNION {parse_window_patterns(commands[k].windows).errors :
           k \in {x \in DOMAIN commands :
                    parse_window_patterns(commands[x].windows).kind = "err"}}

-----------------------------------------------------------------------------
(* Inputs.                                                                  *)

Perm(allow, deny, scope_allow, scope_deny) ==
  [commands |-> [allow |-> allow, deny |-> deny],
   scope |-> [allow |-> scope_allow, deny |-> scope_deny]]

PermissionSet(identifier, members) ==
  [identifier |-> identifier, permissions |-> members]

Manifest(perms, sets, default) ==
  [permissions |-> perms, permission_sets |-> sets, default_permission |-> default]

FsPermissions ==
  [read   |-> Perm(<<"read">>, <<>>, Some(<<"a">>), None),
   read2  |-> Perm(<<"read">>, <<>>, Some(<<"b">>), Some(<<"c">>)),
   rw     |-> Perm(<<"read", "write">>, <<"remove">>, None, None),
   block  |-> Perm(<<>>, <<"read">>, None, Some(<<"d">>)),
   glob   |-> Perm(<<>>, <<>>, Some(<<"g">>), None)]

OsManifest ==
  Manifest([all |-> Perm(<<>>, <<>>, None, Some(<<"o">>))], EmptyMap, None)

\* The members a set of the fs manifest can have (Absent: no such set).
Absent == <<"(absent)">>

MembersOfA ==
  {Absent, <<>>, <<"read">>, <<"B", "read2">>, <<"read", "B", "glob">>,
   <<"A">>, <<"read", "nope">>}

MembersOfB == {Absent, <<"read2">>, <<"A">>, <<"block", "rw">>, <<"B", "read">>}

\* A set named like the permission "read".
MembersOfRead == {Absent, <<"read2">>}

MembersOfDefault == {Absent, <<"read", "B">>, <<"A">>, <<"glob">>}

SetsOf(a, b, r) ==
  LET members == [A |-> a, B |-> b, read |-> r]
      names == {n \in {"A", "B", "read"} : members[n] # Absent}
  IN [n \in names |-> PermissionSet(n, members[n])]

FsManifests ==
  {Manifest(FsPermissions, SetsOf(a, b, r),
            IF d = Absent THEN None ELSE Some(PermissionSet("default", d))) :
     a \in MembersOfA, b \in MembersOfB, r \in MembersOfRead, d \in MembersOfDefault}

FixedFsManifest ==
  Manifest(FsPermissions, SetsOf(<<"read", "B">>, <<"read2", "glob">>, Absent),
           Some(PermissionSet("default", <<"rw", "A">>)))

NoScope == [allow |-> None, deny |-> None]

Identifier(prefix, base) == [prefix |-> prefix, base |-> base]

Ref(plugin, base) ==
  [kind |-> "PermissionRef", identifier |-> Identifier(Some(plugin), base),
   scope |-> NoScope]

Ext(plugin, base, allow, deny) ==
  [kind |-> "ExtendedPermission", identifier |-> Identifier(Some(plugin), base),
   scope |-> [allow |-> allow, deny |-> deny]]

Unprefixed(base) ==
  [kind |-> "PermissionRef", identifier |-> Identifier(None, base), scope |-> NoScope]

LocalContext == [kind |-> "Local", domains |-> <<>>]

RemoteContext(domains) == [kind |-> "Remote", domains |-> domains]

Capability(platforms, context, windows, entries) ==
  [platforms |-> platforms, context |-> context, windows |-> windows,
   permissions |-> entries]

CapabilityPool ==
  {Capability({"linux"}, LocalContext, <<"main">>,
              <<Ref("fs", "read"), Ext("fs", "read2", Some(<<"x">>), None)>>),
   Capability({"linux", "windows"}, LocalContext, <<"main", "w2">>,
              <<Ref("fs", "block"), Ext("fs", "block", Some(<<"y">>), Some(<<"z">>))>>),
   Capability({"linux"}, RemoteContext(<<"*.example.com", "localhost">>), <<"main">>,
              <<Ext("fs", "rw", Some(<<"x">>), None), Ext("fs", "glob", None, Some(<<"y">>))>>),
   Capability({"linux"}, RemoteContext(<<"[">>), <<"main">>,
              <<Ref("fs", "glob"), Ref("fs", "read")>>),
   Capability({"macOS"}, LocalContext, <<"[">>,
              <<Ref("nope", "x"), Ref("fs", "missing")>>),
   Capability({"linux"}, LocalContext, <<"[", "main">>,
              <<Ext("fs", "rw", None, None)>>),
   Capability({"linux"}, LocalContext, <<"w2">>,
              <<Ref("os", "all"), Ref("nope", "x")>>),
   Capability({"linux"}, LocalContext, <<"w2", "main">>,
              <<Unprefixed("app"), Ref("fs", "A")>>),
   Capability({"linux", "macOS"}, RemoteContext(<<"localhost">>), <<"w2">>,
              <<Ref("fs", "default")>>),
   Capability({"macOS"}, RemoteContext(<<"a**">>), <<"main">>,
              <<Ref("fs", "read"), Ref("os", "all")>>)}

\* The number of capabilities of an input.
MaxCaps == 2

SeqsUpTo(S, n) == UNION {[1..k -> S] : k \in 0..n}

Targets == {"linux", "macOS"}

\* The permission a single capability references, manifests varying.
Identifiers == {"A", "B", "default", "read", "rw", "nope"}

-----------------------------------------------------------------------------
(* resolve.                                                                 *)

Pending == [kind |-> "Pending"]

\* The locals of resolve as it starts.
Start ==
  /\ pc = "capability"
  /\ ci = 1 /\ ei = 1 /\ pi = 1
  /\ permissions = <<>>
  /\ allowed_commands = EmptyMap
  /\ denied_commands = EmptyMap
  /\ current_scope_id = 0
  /\ command_scopes = EmptyMap
  /\ global_scope = EmptyMap
  /\ resolved_scopes = EmptyMap
  /\ result = Pending

InitCapabilities ==
  /\ acl = [fs |-> FixedFsManifest, os |-> OsManifest]
  /\ capabilities \in SeqsUpTo(CapabilityPool, MaxCaps)
  /\ target \in Targets

InitManifests ==
  /\ \E m \in FsManifests : acl = [fs |-> m, os |-> OsManifest]
  /\ \E id \in Identifiers :
       capabilities = <<Capability({"linux"}, LocalContext, <<"main">>, <<Ref("fs", id)>>)>>
  /\ target = "linux"

Init ==
  /\ (InitCapabilities \/ InitManifests)
  /\ Start
  /\ first = Pending

inputs == <<acl, capabilities, target>>

accumulators ==
  <<allowed_commands, denied_commands, current_scope_id, command_scopes, global_scope>>

capability == capabilities[ci]

permission_entry == capability.permissions[ei]

plugin_name == permission_entry.identifier.prefix[1]

permission == acl[plugin_name].permissions[permissions[pi]]

\* The platform filter left out.
PlatformMatches_Always(cap, t) == TRUE

PlatformMatches(cap, t) == t \in cap.platforms

\* if !capability.platforms.contains(&target) { continue; }
SkipCapability ==
  /\ pc = "capability" /\ ci <= Len(capabilities)
  /\ ~PlatformMatches(capability, target)
  /\ ci' = ci + 1
  /\ UNCHANGED <<inputs, pc, ei, pi, permissions, accumulators, resolved_scopes,
                 result, first>>

StartCapability ==
  /\ pc = "capability" /\ ci <= Len(capabilities)
  /\ PlatformMatches(capability, target)
  /\ pc' = "entry" /\ ei' = 1
  /\ UNCHANGED <<inputs, ci, pi, permissions, accumulators, resolved_scopes,
                 result, first>>

\* get_permissions(plugin_name, permission_name, &acl)? for the next entry
ExpandEntry ==
  /\ pc = "entry" /\ ei <= Len(capability.permissions)
  /\ IF ~IsSome(permission_entry.identifier.prefix)
       THEN /\ ei' = ei + 1
            /\ UNCHANGED <<pc, pi, permissions, result>>
       ELSE LET r == get_permissions(plugin_name, permission_entry.identifier.base, acl)
            IN CASE r.kind = "ok" ->
                      /\ permissions' = r.permissions
                      /\ pi' = 1
                      /\ pc' = "permission"
                      /\ UNCHANGED <<ei, result>>
                 [] r.kind = "err" ->
                      /\ pc' = "failed"
                      /\ result' = [kind |-> "Err", error |-> r.error]
                      /\ UNCHANGED <<ei, pi, permissions>>
                 [] r.kind = "overflow" ->
                      /\ pc' = "overflow"
                      /\ UNCHANGED <<ei, pi, permissions, result>>
  /\ UNCHANGED <<inputs, ci, accumulators, resolved_scopes, first>>

\* One pass of `for permission in permissions`.
ProcessPermission ==
  /\ pc = "permission" /\ pi <= Len(permissions)
  /\ LET scope == EffectiveScope(permission_entry, permission) IN
     IF IsGlobal(permission)
       THEN /\ global_scope' =
                 MapPut(global_scope, plugin_name,
                        Append(IF plugin_name \in DOMAIN global_scope
                                 THEN global_scope[plugin_name] ELSE <<>>,
                               scope))
            /\ pi' = pi + 1
            /\ UNCHANGED <<pc, allowed_commands, denied_commands, current_scope_id,
                           command_scopes>>
       ELSE LET has_scope == HasScope(scope)
                id == IF has_scope THEN current_scope_id + 1 ELSE current_scope_id
                scope_id == IF has_scope THEN Some(id) ELSE None
                a == ResolveCommands([kind |-> "ok", commands |-> allowed_commands],
                                     plugin_name, permission.commands.allow,
                                     capability, scope_id)
                d == ResolveCommands([kind |-> "ok", commands |-> denied_commands],
                                     plugin_name, permission.commands.deny,
                                     capability, scope_id)
            IN IF a.kind = "panic" \/ d.kind = "panic"
                 THEN /\ pc' = "panicked"
                      /\ UNCHANGED <<pi, accumulators>>
                 ELSE /\ current_scope_id' = id
                      /\ command_scopes' =
                           IF has_scope THEN MapPut(command_scopes, id, scope)
                                        ELSE command_scopes
                      /\ allowed_commands' = a.commands
                      /\ denied_commands' = d.commands
                      /\ pi' = pi + 1
                      /\ UNCHANGED <<pc, global_scope>>
  /\ UNCHANGED <<inputs, ci, ei, permissions, resolved_scopes, result, first>>

EndEntry ==
  /\ pc = "permission" /\ pi > Len(permissions)
  /\ pc' = "entry" /\ ei' = ei + 1
  /\ UNCHANGED <<inputs, ci, pi, permissions, accumulators, resolved_scopes,
                 result, first>>

EndCapability ==
  /\ pc = "entry" /\ ei > Len(capability.permissions)
  /\ pc' = "capability" /\ ci' = ci + 1
  /\ UNCHANGED <<inputs, ei, pi, permissions, accumulators, resolved_scopes,
                 result, first>>

EndCapabilities ==
  /\ pc = "capability" /\ ci > Len(capabilities)
  /\ pc' = "scopes"
  /\ UNCHANGED <<inputs, ci, ei, pi, permissions, accumulators, resolved_scopes,
                 result, first>>

\* The loop `// resolve scopes`: it walks allowed_commands only.
ResolveScopes ==
  /\ pc = "scopes"
  /\ resolved_scopes' = ResolvedScopesOf(allowed_commands, command_scopes)
  /\ allowed_commands' = WithScopeKeys(allowed_commands)
  /\ pc' = "assemble"
  /\ UNCHANGED <<inputs, ci, ei, pi, permissions, denied_commands, current_scope_id,
                 command_scopes, global_scope, result, first>>

\* The global scope, the two command tables and the returned value.  The
\* table of allowed commands is built first, so a window label of it that
\* does not compile is the error returned; which of several, the iteration
\* order decides.
Assemble ==
  /\ pc = "assemble"
  /\ LET errors == IF WindowErrors(allowed_commands) # {}
                     THEN WindowErrors(allowed_commands)
                     ELSE WindowErrors(denied_commands)
     IN
     IF errors # {}
       THEN /\ pc' = "failed"
            /\ \E e \in errors : result' = [kind |-> "Err", error |-> e]
       ELSE /\ pc' = "done"
            /\ \E a \in AssembledCommands(allowed_commands, DOMAIN allowed_commands),
                  d \in AssembledCommands(denied_commands, DOMAIN denied_commands) :
                 result' = [kind |-> "Ok",
                            value |-> [allowed_commands |-> a,
                                       denied_commands |-> d,
                                       command_scope |-> resolved_scopes,
                                       global_scope |->
                                         [p \in DOMAIN global_scope |->
                                            GlobalScopeOf(global_scope[p])]]]
  /\ UNCHANGED <<inputs, ci, ei, pi, permissions, accumulators, resolved_scopes, first>>

\* The caller resolves the same inputs a second time.
ResolveAgain ==
  /\ pc = "done" /\ first = Pending
  /\ first' = result
  /\ pc' = "capability"
  /\ ci' = 1 /\ ei' = 1 /\ pi' = 1
  /\ permissions' = <<>>
  /\ allowed_commands' = EmptyMap
  /\ denied_commands' = EmptyMap
  /\ current_scope_id' = 0
  /\ command_scopes' = EmptyMap
  /\ global_scope' = EmptyMap
  /\ resolved_scopes' = EmptyMap
  /\ result' = Pending
  /\ UNCHANGED inputs

Next ==
  \/ SkipCapability
  \/ StartCapability
  \/ ExpandEntry
  \/ ProcessPermission
  \/ EndEntry
  \/ EndCapability
  \/ EndCapabilities
  \/ ResolveScopes
  \/ Assemble
  \/ ResolveAgain

Spec == Init /\ [][Next]_vars

-----------------------------------------------------------------------------
(* What the claims speak of.                                                *)

\* resolve returned Ok.
Done == pc = "done"

\* A pass of `for permission in permissions` is about to run.
AtPermission == pc = "permission" /\ pi <= Len(permissions)

\* The permission about to be processed names no command.
AtGlobalPermission ==
  /\ AtPermission
  /\ permission.commands.allow = <<>>
  /\ permission.commands.deny = <<>>

\* The permission about to be processed names a command, and processing it
\* does not panic.
NamedStep ==
  /\ AtPermission
  /\ ~(permission.commands.allow = <<>> /\ permission.commands.deny = <<>>)
  /\ pc' = "permission"

RECURSIVE ConcatAll(_)
ConcatAll(ss) == IF ss = <<>> THEN <<>> ELSE Head(ss) \o ConcatAll(Tail(ss))

\* The scope the spec gives a usage: the declared scope for a bare
\* reference; for an extended one, per list, the declared values followed by
\* the extension's, a list being there when either side has one.
JoinedList(declared, extension) ==
  IF declared = None /\ extension = None
    THEN None
    ELSE Some(Flat(declared) \o Flat(extension))

ClaimedScope(entry, declared) ==
  IF entry.kind = "PermissionRef"
    THEN declared
    ELSE [allow |-> JoinedList(declared.allow, entry.scope.allow),
          deny  |-> JoinedList(declared.deny, entry.scope.deny)]

\* The permission usages of the inputs, in processing order (read where
\* every expansion succeeded): capabilities of the target in key order,
\* their prefixed entries in order, each entry's permissions in order.
UsagesOfEntry(cap, entry) ==
  IF entry.identifier.prefix = None
    THEN <<>>
    ELSE LET plugin == entry.identifier.prefix[1]
             names == get_permissions(plugin, entry.identifier.base, acl).permissions
         IN [i \in DOMAIN names |->
               [capability |-> cap, plugin |-> plugin,
                permission |-> acl[plugin].permissions[names[i]],
                entry |-> entry]]

Usages ==
  ConcatAll([c \in DOMAIN capabilities |->
    IF target \in capabilities[c].platforms
      THEN ConcatAll([e \in DOMAIN capabilities[c].permissions |->
                        UsagesOfEntry(capabilities[c], capabilities[c].permissions[e])])
      ELSE <<>>])

IsWholePlugin(u, plugin) ==
  /\ u.plugin = plugin
  /\ u.permission.commands.allow = <<>>
  /\ u.permission.commands.deny = <<>>

\* The whole-plugin contributions to a plugin, in processing order.
WholePluginScopes(plugin) ==
  LET us == SelectSeq(Usages, LAMBDA u : IsWholePlugin(u, plugin))
  IN [i \in DOMAIN us |-> ClaimedScope(us[i].entry, us[i].permission.scope)]

\* The tables a claim about "allowed_commands and denied_commands alike"
\* ranges over: the accumulated entry and the returned one, per key.
Tables ==
  {[temp |-> allowed_commands, out |-> result.value.allowed_commands],
   [temp |-> denied_commands, out |-> result.value.denied_commands]}

-----------------------------------------------------------------------------
(* C1: after a successful resolve, every entry of allowed_commands and of   *)
(* denied_commands that received a scope id has scope = Some(k) with k a    *)
(* key of command_scope, and every entry that received none has scope =     *)
(* None.                                                                    *)
C1_ScopedEntriesHaveKey ==
  Done =>
    \A t \in Tables : \A k \in DOMAIN t.temp :
      IF t.temp[k].scope # <<>>
        THEN /\ IsSome(t.out[k].scope)
             /\ t.out[k].scope[1] \in DOMAIN result.value.command_scope
        ELSE t.out[k].scope = None

(* C2: every error raised during resolution (among them a remote domain     *)
(* that is no valid glob pattern) ends resolve with an error result, and    *)
(* no Resolved value.                                                       *)
C2_ErrorsAreResults ==
  pc \in {"failed", "panicked"} => result.kind = "Err"

(* C3: an entry of either table to which several usages contributed scopes  *)
(* has a ScopeKey whose ResolvedScope lists, in ascending scope id order,   *)
(* every contributing scope's allow values, and likewise its deny values;   *)
(* the length of the merged list is the sum of the contributions' lengths.  *)
RECURSIVE SumOfLengths(_)
SumOfLengths(lists) ==
  IF lists = <<>> THEN 0 ELSE Len(Head(lists)) + SumOfLengths(Tail(lists))

C3_ScopesAreConcatenated ==
  Done =>
    \A t \in Tables : \A k \in DOMAIN t.temp :
      Len(t.temp[k].scope) >= 2 =>
        LET ids == SortIds(t.temp[k].scope)
            allows == [i \in DOMAIN ids |-> Flat(command_scopes[ids[i]].allow)]
            denies == [i \in DOMAIN ids |-> Flat(command_scopes[ids[i]].deny)]
        IN /\ IsSome(t.out[k].scope)
           /\ t.out[k].scope[1] \in DOMAIN result.value.command_scope
           /\ LET merged == result.value.command_scope[t.out[k].scope[1]]
              IN /\ merged.allow = ConcatAll(allows)
                 /\ merged.deny = ConcatAll(denies)
                 /\ Len(merged.allow) = SumOfLengths(allows)

(* C4: processing a permission that names no command changes no entry of    *)
(* allowed_commands, denied_commands or the scope tables; and the returned  *)
(* global_scope has an entry exactly for the plugins with a whole-plugin    *)
(* usage, whose allow (deny) list is the allow (deny) lists of those        *)
(* usages' scopes, one after the other in processing order, nothing         *)
(* deduplicated.                                                            *)
C4_GlobalScopeOnly ==
  /\ [][AtGlobalPermission =>
          UNCHANGED <<allowed_commands, denied_commands, current_scope_id,
                      command_scopes, resolved_scopes>>]_vars
  /\ [](Done =>
          /\ DOMAIN result.value.global_scope =
               {p \in DOMAIN acl : WholePluginScopes(p) # <<>>}
          /\ \A p \in DOMAIN result.value.global_scope :
               LET scopes == WholePluginScopes(p) IN
               /\ result.value.global_scope[p].allow =
                    ConcatAll([i \in DOMAIN scopes |-> Flat(scopes[i].allow)])
               /\ result.value.global_scope[p].deny =
                    ConcatAll([i \in DOMAIN scopes |-> Flat(scopes[i].deny)]))

\* Two whole-plugin usages of one plugin were merged, and a named command
\* was resolved beside them.
C4_Witness ==
  /\ Done
  /\ "fs" \in DOMAIN result.value.global_scope
  /\ Len(WholePluginScopes("fs")) >= 2
  /\ Len(result.value.global_scope["fs"].allow) >= 2
  /\ result.value.global_scope["fs"].deny # <<>>
  /\ DOMAIN result.value.allowed_commands # {}

(* C5: resolving the same inputs twice returns the same value, the order    *)
(* of every list in it included.                                            *)
C5_Deterministic ==
  (Done /\ first # Pending) => result = first

(* C6: resolve terminates on every finite input, permission sets that       *)
(* reference themselves included: the expansion never recurses deeper than  *)
(* the manifest has sets.                                                   *)
C6_Terminates ==
  pc # "overflow"

(* C7: processing a permission that names commands, for each command of     *)
(* its allow list (its deny list) creates or updates in allowed_commands    *)
(* (denied_commands) exactly the key (command, Local) under a Local         *)
(* capability and exactly the N keys (command, Remote{pattern}) under a     *)
(* Remote capability of N distinct domains; each of them gets the           *)
(* capability's window labels added to its set of labels and the usage's    *)
(* scope id, if it has one, appended to its ids; no other key changes.      *)
ClaimedContexts(cap) ==
  IF cap.context.kind = "Local"
    THEN {[kind |-> "Local", domain |-> None]}
    ELSE {[kind |-> "Remote", domain |-> Some([original |-> d])] :
            d \in Range(cap.context.domains)}

ClaimedKeys(cap, plugin, names) ==
  {[name |-> "plugin:" \o plugin \o "|" \o c, context |-> x] :
     c \in Range(names), x \in ClaimedContexts(cap)}

FanOut(old, new, names) ==
  LET keys == ClaimedKeys(capability, plugin_name, names)
      id == IF current_scope_id' = current_scope_id
              THEN <<>> ELSE <<current_scope_id'>>
  IN /\ DOMAIN new = DOMAIN old \cup keys
     /\ \A k \in DOMAIN new \ keys : new[k] = old[k]
     /\ \A k \in keys :
          /\ new[k].windows =
               (IF k \in DOMAIN old THEN old[k].windows ELSE {})
                 \cup Range(capability.windows)
          /\ new[k].scope =
               (IF k \in DOMAIN old THEN old[k].scope ELSE <<>>) \o id
     /\ \A c \in Range(names) :
          Cardinality({k \in keys : k.name = "plugin:" \o plugin_name \o "|" \o c}) =
            IF capability.context.kind = "Local"
              THEN 1 ELSE Cardinality(Range(capability.context.domains))

C7_ContextFanOut ==
  [][NamedStep =>
       /\ FanOut(allowed_commands, allowed_commands', permission.commands.allow)
       /\ FanOut(denied_commands, denied_commands', permission.commands.deny)]_vars

\* A command has its two keys of a Remote capability of two domains, each
\* with the same scope id and window labels, and a key gathered two window
\* labels and two scope ids from two capabilities.
C7_Witness ==
  /\ pc = "permission" /\ pi > 1
  /\ \E k1, k2 \in DOMAIN allowed_commands :
       /\ k1.name = k2.name /\ k1 # k2
       /\ k1.context.kind = "Remote" /\ k2.context.kind = "Remote"
       /\ allowed_commands[k1].scope # <<>>
       /\ allowed_commands[k1].scope = allowed_commands[k2].scope
       /\ allowed_commands[k1].windows = allowed_commands[k2].windows
  /\ \E k \in DOMAIN allowed_commands :
       /\ Cardinality(allowed_commands[k].windows) = 2
       /\ Len(allowed_commands[k].scope) >= 2

(* C8: an identifier expands to the list got by replacing, in place and in  *)
(* member order, every set by its members until only permissions are left   *)
(* (so a set A holding a set B holding P expands like P); "default" starts  *)
(* from the default set, any other identifier from the set of that name if  *)
(* there is one and else from the permission of that name.                  *)
RECURSIVE FlattenInPlace(_, _)
FlattenInPlace(manifest, work) ==
  IF work = <<>> THEN <<>>
  ELSE IF Head(work) \in DOMAIN manifest.permissions
    THEN <<Head(work)>> \o FlattenInPlace(manifest, Tail(work))
    ELSE FlattenInPlace(manifest,
                        manifest.permission_sets[Head(work)].permissions \o Tail(work))

ClaimedStart(manifest, name) ==
  IF name = "default" THEN manifest.default_permission[1].permissions
  ELSE IF name \in DOMAIN manifest.permission_sets
    THEN manifest.permission_sets[name].permissions
  ELSE <<name>>

KeysOfUsage(u, table) ==
  ClaimedKeys(u.capability, u.plugin,
              IF table = "allowed" THEN u.permission.commands.allow
                                   ELSE u.permission.commands.deny)

OnlyFromUsages(out, table) ==
  /\ DOMAIN out = UNION {KeysOfUsage(u, table) : u \in Range(Usages)}
  /\ \A k \in DOMAIN out :
       {w.original : w \in Range(out[k].windows)} =
         UNION {Range(u.capability.windows) :
                  u \in {x \in Range(Usages) : k \in KeysOfUsage(x, table)}}

C9_OtherPlatformsSkipped ==
  /\ [][(pc = "capability" /\ ci <= Len(capabilities)
           /\ target \notin capabilities[ci].platforms) =>
          /\ pc' = "capability" /\ ci' = ci + 1
          /\ UNCHANGED <<allowed_commands, denied_commands, current_scope_id,
                         command_scopes, global_scope, resolved_scopes, result>>]_vars
  /\ [](Done =>
          /\ OnlyFromUsages(result.value.allowed_commands, "allowed")
          /\ OnlyFromUsages(result.value.denied_commands, "denied"))
  /\ [](pc \in {"failed", "panicked", "overflow"} =>
          IF ci <= Len(capabilities)
            THEN target \in capabilities[ci].platforms
            ELSE result.error.pattern \in
                   UNION {Range(u.capability.windows) : u \in Range(Usages)})

\* resolve returned Ok although a capability of another platform references
\* an unknown plugin and carries a window label that is no pattern, and a
\* capability of the target was resolved after it.
C9_Witness ==
  /\ Done
  /\ \E c \in DOMAIN capabilities :
       /\ target \notin capabilities[c].platforms
       /\ \E e \in DOMAIN capabilities[c].permissions :
            capabilities[c].permissions[e].identifier.prefix \notin
              {None} \cup {Some(p) : p \in DOMAIN acl}
       /\ \E w \in Range(capabilities[c].windows) : w \in InvalidGlobs
       /\ c < Len(capabilities)
  /\ DOMAIN result.value.allowed_commands # {}

(* C10: the scope recorded for a permission usage (in the plugin's global   *)
(* list, or under a new scope id when it has an allow or a deny list) is    *)
(* the declared scope for a bare reference and, for an extended one, per    *)
(* list, the declared values followed by the extension's values, the list   *)
(* being absent only when both are; the manifests never change.             *)
C10_EffectiveScope ==
  /\ [][acl' = acl]_vars
  /\ [][(AtPermission /\ pc' = "permission") =>
          LET claimed == ClaimedScope(permission_entry, permission.scope) IN
          IF permission.commands.allow = <<>> /\ permission.commands.deny = <<>>
            THEN /\ plugin_name \in DOMAIN global_scope'
                 /\ LET list == global_scope'[plugin_name] IN
                    /\ list[Len(list)] = claimed
                    /\ Len(list) = 1 + (IF plugin_name \in DOMAIN global_scope
                                          THEN Len(global_scope[plugin_name]) ELSE 0)
            ELSE IF claimed.allow # None \/ claimed.deny # None
              THEN /\ current_scope_id' = current_scope_id + 1
                   /\ command_scopes'[current_scope_id'] = claimed
              ELSE UNCHANGED <<current_scope_id, command_scopes>>]_vars

\* An extended reference gave an allow list to a permission that declares
\* none and added to the deny list it declares.
C10_Witness ==
  \E id \in DOMAIN command_scopes :
    /\ command_scopes[id].allow = Some(<<"y">>)
    /\ command_scopes[id].deny = Some(<<"d", "z">>)

====
